---- MODULE Spec2Model ----
(***************************************************************************)
(* A model of generate_data.py: the eight table generators and main, which *)
(* calls them in a fixed order and then writes the eight CSV files.         *)
(*                                                                         *)
(* Every call of a random number generator is a nondeterministic choice.   *)
(* Draws that decide the SHAPE of a table (an identifier, a row picked     *)
(* from an upstream table, the number of items or payments) range over     *)
(* everything the call can return.  Draws that decide only a VALUE (a day  *)
(* offset, a price, a label) range over a sample of the call's range that  *)
(* a profile selects: the profile of a specification says how much of each *)
(* value range TLC enumerates there.                                       *)
(*                                                                         *)
(* The tables carry their keys, foreign keys, timestamps, amounts and      *)
(* labels; columns that no generator reads back (zip prefixes, product     *)
(* dimensions, customer_unique_id) are left out.                           *)
(*                                                                         *)
(* Timestamps are seconds since 2023-01-01 00:00:00, money is in cents,    *)
(* and a hexadecimal identifier is the number it denotes (strings of one   *)
(* length in lower case sort as their numbers do).                         *)
(***************************************************************************)
EXTENDS Integers, Sequences, FiniteSets, TLC

VARIABLES
    cfg,          \* the four row counts, N_CUSTOMERS .. N_ORDERS
    pc,           \* main's position: an index into MainProgram
    failed,       \* "" while running, else the statement that raised
    customers, sellers, products, translations,
    orders, order_items, payments, reviews,   \* main's local tables
    files,        \* the CSV files written so far
    printed       \* whether the completion message was printed

vars == <<cfg, pc, failed, customers, sellers, products, translations,
          orders, order_items, payments, reviews, files, printed>>

----------------------------------------------------------------------------
(* Bounds and units *)

\* How many values TLC takes from each end of a value range in the
\* specifications of a single generator.
Width == 2

\* The largest N_ORDERS of a whole run.
MaxOrders == 2

Day == 86400

\* pd.NaT, the missing timestamp: a value no timestamp takes.
NaT == -1

\* int((end_date - start_date).total_seconds()): 364 days.
YearSeconds == 364 * Day

Min(a, b) == IF a <= b THEN a ELSE b


\* random.randint(a, b) for a draw that shapes a table: both ends included.
randint(a, b) == a .. b

\* The part of a..b that TLC enumerates for a value draw: the w smallest
\* and the w largest values, or the smallest alone when w = 0.
SampledInt(a, b, w) ==
    IF w = 0 THEN {a}
    ELSE {x \in {a + i : i \in 0 .. (w - 1)} \cup {b - i : i \in 0 .. (w - 1)} :
              a <= x /\ x <= b}

\* The part of a list of labels that TLC enumerates for a draw from it: its
\* first c labels.
SampledChoice(list, c) == {list[i] : i \in 1 .. Min(c, Len(list))}

\* The profiles: num is the w of the draws of days, seconds, scores and
\* installments, money the w of the draws of amounts, cats the c of the label
\* draws (10 labels is every list in full), ids the c of the identifiers.
Narrow == [num |-> 0, money |-> 0, cats |-> 1, ids |-> 2]
TwoLabels == [num |-> 0, money |-> 0, cats |-> 2, ids |-> 2]
OneId == [num |-> 0, money |-> 0, cats |-> 1, ids |-> 1]
ThreeIds == [num |-> 0, money |-> 0, cats |-> 1, ids |-> 3]
WideMoney == [num |-> 0, money |-> Width, cats |-> 1, ids |-> 2]
WideNumbers == [num |-> Width, money |-> Width, cats |-> 1, ids |-> 2]
Wide == [num |-> Width, money |-> Width, cats |-> 10, ids |-> 2]

\* The identifiers TLC enumerates for gen_id, few enough that two draws
\* collide as well as differ.
IdSpace == <<10, 11, 12>>

\* ''.join(random.choices('0123456789abcdef', k=length))
gen_id(p) == SampledChoice(IdSpace, p.ids)

\* The sequences of length n over S, and those without a repeated element.
SeqsOf(S, n) == [1 .. n -> S]
InjSeqs(S, n) == {s \in [1 .. n -> S] : \A i, j \in 1 .. n : s[i] = s[j] => i = j}

Sum(f, S) ==
    LET RECURSIVE Acc(_)
        Acc(T) == IF T = {} THEN 0
                  ELSE LET x == CHOOSE y \in T : TRUE IN f[x] + Acc(T \ {x})
    IN Acc(S)

Column(table, name) == {table[i][name] : i \in 1 .. Len(table)}

\* The numbers of S in ascending order.
SortedSeq(S) ==
    LET RECURSIVE Sorted(_)
        Sorted(T) ==
            IF T = {} THEN <<>>
            ELSE LET m == CHOOSE x \in T : \A y \in T : x <= y
                 IN <<m>> \o Sorted(T \ {m})
    IN Sorted(S)

----------------------------------------------------------------------------
(* main's statements, in order *)

Generators == <<"generate_customers", "generate_sellers", "generate_products",
                "generate_category_translations", "generate_orders",
                "generate_order_items", "generate_payments", "generate_reviews">>

CsvFiles == <<"customers.csv", "sellers.csv", "products.csv",
              "product_category_translation.csv", "orders.csv",
              "order_items.csv", "order_payments.csv", "order_reviews.csv">>

\* A main that writes each table as soon as it is generated.
MainProgramWritingEachTable ==
    [i \in 1 .. 2 * Len(Generators) |->
        IF i % 2 = 1 THEN Generators[(i + 1) \div 2] ELSE CsvFiles[i \div 2]]
    \o <<"print">>

MainProgram == Generators \o CsvFiles \o <<"print">>

PcOf(stmt) == CHOOSE i \in 1 .. Len(MainProgram) : MainProgram[i] = stmt

Running == failed = "" /\ pc <= Len(MainProgram)
At(stmt) == Running /\ MainProgram[pc] = stmt
Returned(stmt) == \E i \in 1 .. Len(MainProgram) : MainProgram[i] = stmt /\ i < pc
Done == failed = "" /\ pc = Len(MainProgram) + 1

Advance == /\ pc' = pc + 1
           /\ failed' = failed

Raise == /\ failed' = MainProgram[pc]
         /\ pc' = pc

----------------------------------------------------------------------------
(* generate_customers, generate_sellers, generate_products *)

Cities == <<"Sofia", "Plovdiv", "Varna", "Burgas", "Ruse", "Stara Zagora",
            "Pleven", "Sliven", "Dobrich", "Shumen">>

Categories == <<"bed_bath_table", "health_beauty", "computers", "books", "toys",
                "sports", "groceries", "pet_shop", "auto", "furniture">>

CustomerRows(p) ==
    [customer_id : gen_id(p),
     customer_city : SampledChoice(Cities, p.cats),
     customer_state : {"BG"}]

GenerateCustomers(p) ==
    /\ At("generate_customers")
    /\ \E t \in SeqsOf(CustomerRows(p), cfg.customers) : customers' = t
    /\ Advance
    /\ UNCHANGED <<cfg, sellers, products, translations, orders, order_items,
                   payments, reviews, files, printed>>

SellerRows(p) ==
    [seller_id : gen_id(p),
     seller_city : SampledChoice(Cities, p.cats),
     seller_state : {"BG"}]

GenerateSellers(p) ==
    /\ At("generate_sellers")
    /\ \E t \in SeqsOf(SellerRows(p), cfg.sellers) : sellers' = t
    /\ Advance
    /\ UNCHANGED <<cfg, customers, products, translations, orders, order_items,
                   payments, reviews, files, printed>>

ProductRows(p) ==
    [product_id : gen_id(p),
     product_category_name : SampledChoice(Categories, p.cats)]

GenerateProducts(p) ==
    /\ At("generate_products")
    /\ \E t \in SeqsOf(ProductRows(p), cfg.products) : products' = t
    /\ Advance
    /\ UNCHANGED <<cfg, customers, sellers, translations, orders, order_items,
                   payments, reviews, files, printed>>

----------------------------------------------------------------------------
(* generate_category_translations *)

\* Series.unique(): the distinct values in order of first appearance.
Unique(s) ==
    LET RECURSIVE Go(_, _)
        Go(i, acc) ==
            IF i > Len(s) THEN acc
            ELSE IF \E j \in 1 .. Len(acc) : acc[j] = s[i] THEN Go(i + 1, acc)
            ELSE Go(i + 1, Append(acc, s[i]))
    IN Go(1, <<>>)

TranslationInput(prods) ==
    Unique([i \in 1 .. Len(prods) |-> prods[i].product_category_name])

CategoryTranslations(categories) ==
    [i \in 1 .. Len(categories) |->
        [product_category_name |-> categories[i],
         product_category_name_english |-> categories[i]]]

GenerateCategoryTranslations ==
    /\ At("generate_category_translations")
    /\ translations' = CategoryTranslations(TranslationInput(products))
    /\ Advance
    /\ UNCHANGED <<cfg, customers, sellers, products, orders, order_items,
                   payments, reviews, files, printed>>

----------------------------------------------------------------------------
(* generate_orders *)

Statuses == <<"delivered", "shipped", "canceled", "invoiced", "processing">>

\* random.randint(0, int((end_date - start_date).total_seconds()))
PurchaseSeconds(w) == SampledInt(0, YearSeconds, w)

ApprovedDays(w) == SampledInt(0, 3, w)
\* random.randint(0, 5) for the carrier offset.
CarrierDaysFromZero(w) == SampledInt(0, 5, w)

CarrierDays(w) == SampledInt(1, 5, w)
CustomerDays(w) == SampledInt(1, 7, w)
EstimatedDays(w) == SampledInt(3, 10, w)

\* The approval offset subtracted instead of added.
ApprovedAtEarlier(purchase, d) == purchase - d * Day

ApprovedAt(purchase, d) == purchase + d * Day
CarrierDate(approved, d) == approved + d * Day
\* The date left out for canceled orders only.
IsNotCanceled(status) == status # "canceled"

IsDelivered(status) == status = "delivered"
EstimatedDate(purchase, d) == purchase + d * Day

\* The customer-date draw is made for a delivered order only.
CustomerDates(carrier, status, w) ==
    IF IsDelivered(status) THEN {carrier + d * Day : d \in CustomerDays(w)}
    ELSE {NaT}

OrderRow(oid, cid, status, purchase, approved, carrier, customer, estimated) ==
    [order_id |-> oid,
     customer_id |-> cid,
     order_status |-> status,
     order_purchase_timestamp |-> purchase,
     order_approved_at |-> approved,
     order_delivered_carrier_date |-> carrier,
     order_delivered_customer_date |-> customer,
     order_estimated_delivery_date |-> estimated]

\* The customer_unique_id column picked from: fresh gen_id draws.
OrderCustomerPoolOfUniqueIds(custs) == IF custs = <<>> THEN {} ELSE gen_id(Narrow)

\* np.random.choice(customers["customer_id"], N_ORDERS) picks among these.
OrderCustomerPool(custs) == Column(custs, "customer_id")

OrderRows(custs, p) ==
    UNION {
        {OrderRow(oid, cid, status, purchase, ApprovedAt(purchase, a),
                  CarrierDate(ApprovedAt(purchase, a), c), cd,
                  EstimatedDate(purchase, e)) :
            cd \in CustomerDates(CarrierDate(ApprovedAt(purchase, a), c),
                                 status, p.num)} :
        oid \in gen_id(p),
        cid \in OrderCustomerPool(custs),
        status \in SampledChoice(Statuses, p.cats),
        purchase \in PurchaseSeconds(p.num),
        a \in ApprovedDays(p.num),
        c \in CarrierDays(p.num),
        e \in EstimatedDays(p.num)}

GenerateOrders(p) ==
    /\ At("generate_orders")
    /\ \/ /\ cfg.orders > 0
          /\ customers = <<>>        \* np.random.choice: 'a' cannot be empty
          /\ Raise
          /\ UNCHANGED orders
       \/ /\ \E t \in SeqsOf(OrderRows(customers, p), cfg.orders) : orders' = t
          /\ Advance
    /\ UNCHANGED <<cfg, customers, sellers, products, translations, order_items,
                   payments, reviews, files, printed>>

----------------------------------------------------------------------------
(* generate_order_items *)

\* random.uniform(10, 500) and random.uniform(2, 50), rounded to cents.
PriceCents(w) == SampledInt(1000, 50000, w)
FreightCents(w) == SampledInt(200, 5000, w)
ShippingDays(w) == SampledInt(1, 7, w)

\* n_items = random.randint(1, 3)
ItemCounts == randint(1, 3)

\* random.choices in place of random.sample: positions drawn with replacement.
ProductChoices(prods, n) == SeqsOf(1 .. Len(prods), n)

\* random.sample(list(products["product_id"]), n): n distinct positions of
\* the list, in the order drawn; it raises when n exceeds the list's length.
ProductSamples(prods, n) == InjSeqs(1 .. Len(prods), n)

\* enumerate(product_choices, start=1)
ItemSeq(i) == i

ItemRow(oid, idx, pid, sid, shipping, price, freight) ==
    [order_id |-> oid,
     order_item_id |-> idx,
     product_id |-> pid,
     seller_id |-> sid,
     shipping_limit_date |-> shipping,
     price |-> price,
     freight_value |-> freight]

\* The rows one iteration of the outer loop can append for order o.
ItemBlocks(o, prods, sells, p) ==
    UNION {
        {[i \in 1 .. n |->
            ItemRow(o.order_id, ItemSeq(i), prods[ch[i]].product_id,
                    sells[ss[i]].seller_id,
                    o.order_purchase_timestamp + sd[i] * Day, pr[i], fr[i])] :
            ch \in ProductSamples(prods, n),
            ss \in SeqsOf(1 .. Len(sells), n),
            pr \in SeqsOf(PriceCents(p.money), n),
            fr \in SeqsOf(FreightCents(p.money), n),
            sd \in SeqsOf(ShippingDays(p.num), n)} :
        n \in {k \in ItemCounts : k <= Len(prods)}}

\* Every order_items_data the loop over the orders can build.
ItemTables(ords, prods, sells, p) ==
    LET RECURSIVE From(_)
        From(i) ==
            IF i > Len(ords) THEN {<<>>}
            ELSE LET rest == From(i + 1)
                 IN {b \o t : b \in ItemBlocks(ords[i], prods, sells, p), t \in rest}
    IN From(1)

GenerateOrderItems(p) ==
    /\ At("generate_order_items")
    /\ \/ /\ orders # <<>>
          /\ \/ \E n \in ItemCounts : n > Len(products)   \* random.sample raises
             \/ sellers = <<>>                             \* random.choice raises
          /\ Raise
          /\ UNCHANGED order_items
       \/ /\ \E t \in ItemTables(orders, products, sellers, p) : order_items' = t
          /\ Advance
    /\ UNCHANGED <<cfg, customers, sellers, products, translations, orders,
                   payments, reviews, files, printed>>

----------------------------------------------------------------------------
(* generate_payments *)

PaymentTypes == <<"credit_card", "boleto", "voucher", "debit_card">>

\* The index of groupby("order_id"): the distinct keys in ascending order.
GroupKeys(items) == SortedSeq(Column(items, "order_id"))

\* agg sum of price plus agg sum of freight_value over the group of oid.
TotalValue(items, oid) ==
    LET rows == {i \in 1 .. Len(items) : items[i].order_id = oid}
    IN Sum([i \in rows |-> items[i].price], rows)
       + Sum([i \in rows |-> items[i].freight_value], rows)

\* n_payments = 1 if random.random() < 0.9 else 2
PaymentCounts == {1, 2}

Installments(w) == SampledInt(1, 6, w)

\* random.uniform(-5, 5), in cents
NoiseCents(w) == SampledInt(-500, 500, w)

\* round(x, 2) of a value given in half cents: a tie falls to either side,
\* as the binary value next to it lies on either side.
Round2(halfCents) ==
    IF halfCents % 2 = 0 THEN {halfCents \div 2}
    ELSE {(halfCents - 1) \div 2, (halfCents + 1) \div 2}

\* The total not divided by the number of payments.
PaymentValuesUndivided(total, n, noise) == Round2(2 * total + 2 * noise)

\* round(total_value / n_payments + noise, 2)
PaymentValues(total, n, noise) == Round2((2 * total) \div n + 2 * noise)

\* The installment count drawn anew for each payment of the order.
InstallmentsRedrawn(inst, seq) == IF seq = 1 THEN inst ELSE 7 - inst

\* The installment count of payment seq, drawn once before the inner loop.
InstallmentsOf(inst, seq) == inst

PaymentRow(oid, seq, ptype, inst, value) ==
    [order_id |-> oid,
     payment_sequential |-> seq,
     payment_type |-> ptype,
     payment_installments |-> inst,
     payment_value |-> value]

\* The rows one iteration of the loop over the groups can append.
PaymentBlocks(oid, total, p) ==
    UNION {
        {[seq \in 1 .. n |->
            PaymentRow(oid, seq, pt[seq], InstallmentsOf(inst, seq), v[seq])] :
            pt \in SeqsOf(SampledChoice(PaymentTypes, p.cats), n),
            v \in SeqsOf(UNION {PaymentValues(total, n, z) :
                                    z \in NoiseCents(p.money)}, n)} :
        n \in PaymentCounts, inst \in Installments(p.num)}

PaymentTables(items, p) ==
    LET keys == GroupKeys(items)
        RECURSIVE From(_)
        From(i) ==
            IF i > Len(keys) THEN {<<>>}
            ELSE LET rest == From(i + 1)
                 IN {b \o t :
                        b \in PaymentBlocks(keys[i], TotalValue(items, keys[i]), p),
                        t \in rest}
    IN From(1)

GeneratePayments(p) ==
    /\ At("generate_payments")
    /\ \E t \in PaymentTables(order_items, p) : payments' = t
    /\ Advance
    /\ UNCHANGED <<cfg, customers, sellers, products, translations, orders,
                   order_items, reviews, files, printed>>

----------------------------------------------------------------------------
(* generate_reviews *)

ReviewScores(w) == SampledInt(1, 5, w)
CreationDays(w) == SampledInt(5, 40, w)
AnswerDays(w) == SampledInt(1, 10, w)

\* The review created before the approval.
CreationDateEarlier(approved, d) == approved - d * Day

CreationDate(approved, d) == approved + d * Day
AnswerDate(creation, d) == creation + d * Day

ReviewRow(rid, oid, score, creation, answer) ==
    [review_id |-> rid,
     order_id |-> oid,
     review_score |-> score,
     review_comment_title |-> "",
     review_comment_message |-> "",
     review_creation_date |-> creation,
     review_answer_timestamp |-> answer]

\* The row the loop can append for order o.
ReviewRows(o, p) ==
    {ReviewRow(rid, o.order_id, score, CreationDate(o.order_approved_at, c),
               AnswerDate(CreationDate(o.order_approved_at, c), a)) :
        rid \in gen_id(p),
        score \in ReviewScores(p.num),
        c \in CreationDays(p.num),
        a \in AnswerDays(p.num)}

\* Every review_records the loop over the orders can build.
ReviewTables(ords, p) ==
    LET RECURSIVE From(_)
        From(i) ==
            IF i > Len(ords) THEN {<<>>}
            ELSE LET rest == From(i + 1)
                 IN {<<r>> \o t : r \in ReviewRows(ords[i], p), t \in rest}
    IN From(1)

GenerateReviews(p) ==
    /\ At("generate_reviews")
    /\ \E t \in ReviewTables(orders, p) : reviews' = t
    /\ Advance
    /\ UNCHANGED <<cfg, customers, sellers, products, translations, orders,
                   order_items, payments, files, printed>>

----------------------------------------------------------------------------
(* main: the writes and the completion message *)

IsCsv(stmt) == \E i \in 1 .. Len(CsvFiles) : CsvFiles[i] = stmt

\* DataFrame.to_csv: the file is written in full, or the write raises an
\* I/O error and the file is not among the written ones.
WriteCsv ==
    /\ Running
    /\ IsCsv(MainProgram[pc])
    /\ \/ /\ files' = files \cup {MainProgram[pc]}
          /\ Advance
       \/ /\ files' = files
          /\ Raise
    /\ UNCHANGED <<cfg, customers, sellers, products, translations, orders,
                   order_items, payments, reviews, printed>>

PrintComplete ==
    /\ At("print")
    /\ printed' = TRUE
    /\ Advance
    /\ UNCHANGED <<cfg, customers, sellers, products, translations, orders,
                   order_items, payments, reviews, files>>

----------------------------------------------------------------------------
(* The whole run *)

Configs(cs, ss, ps, os) == [customers : cs, sellers : ss, products : ps, orders : os]

\* The row counts of the whole run: the source's 200, 50, 100 and 1000 cut
\* down, with the counts at which a generator raises among them.
PipelineConfigs == Configs(0 .. 1, 0 .. 1, {2}, 0 .. MaxOrders)

NoTables ==
    /\ customers = <<>> /\ sellers = <<>> /\ products = <<>>
    /\ translations = <<>> /\ orders = <<>> /\ order_items = <<>>
    /\ payments = <<>> /\ reviews = <<>>

Init ==
    /\ cfg \in PipelineConfigs
    /\ pc = 1
    /\ failed = ""
    /\ NoTables
    /\ files = {}
    /\ printed = FALSE

\* The whole run draws its values from the smallest samples; the products
\* take two categories, and the review ids, which no table refers to, one.
Next ==
    \/ GenerateCustomers(Narrow)
    \/ GenerateSellers(Narrow)
    \/ GenerateProducts(TwoLabels)
    \/ GenerateCategoryTranslations
    \/ GenerateOrders(Narrow)
    \/ GenerateOrderItems(Narrow)
    \/ GeneratePayments(Narrow)
    \/ GenerateReviews(OneId)
    \/ WriteCsv
    \/ PrintComplete

Spec == Init /\ [][Next]_vars

----------------------------------------------------------------------------
(* One generator at a time: the run is taken up where main calls the       *)
(* generator, with upstream tables that the generators before it can have  *)
(* returned, and the generator draws from the wider samples.               *)

One(S) == CHOOSE x \in S : TRUE

AtCall(stmt) ==
    /\ pc = PcOf(stmt)
    /\ failed = ""
    /\ files = {}
    /\ printed = FALSE

InitOrders ==
    /\ cfg \in Configs(0 .. 2, {1}, {2}, {1})
    /\ customers \in SeqsOf(CustomerRows(Narrow), cfg.customers)
    /\ sellers = One(SeqsOf(SellerRows(Narrow), cfg.sellers))
    /\ products = One(SeqsOf(ProductRows(Narrow), cfg.products))
    /\ translations = CategoryTranslations(TranslationInput(products))
    /\ orders = <<>> /\ order_items = <<>> /\ payments = <<>> /\ reviews = <<>>
    /\ AtCall("generate_orders")

NextOrders == GenerateOrders(Wide)

SpecOrders == InitOrders /\ [][NextOrders]_vars

InitItems ==
    /\ cfg \in Configs({1}, 0 .. 2, 2 .. 3, 1 .. 2)
    /\ customers = One(SeqsOf(CustomerRows(Narrow), cfg.customers))
    /\ sellers \in SeqsOf(SellerRows(Narrow), cfg.sellers)
    /\ products \in SeqsOf(ProductRows(ThreeIds), cfg.products)
    /\ translations = CategoryTranslations(TranslationInput(products))
    /\ orders \in SeqsOf(OrderRows(customers, Narrow), cfg.orders)
    /\ order_items = <<>> /\ payments = <<>> /\ reviews = <<>>
    /\ AtCall("generate_order_items")

NextItems == GenerateOrderItems(Narrow)

SpecItems == InitItems /\ [][NextItems]_vars

\* One order with items of the wider amounts, or two orders (whose ids may
\* collide) with items of the smallest amounts.
InitPayments ==
    /\ cfg \in Configs({1}, {1}, {2}, 1 .. 2)
    /\ customers = One(SeqsOf(CustomerRows(Narrow), cfg.customers))
    /\ sellers = One(SeqsOf(SellerRows(Narrow), cfg.sellers))
    /\ products = One(SeqsOf(ProductRows(Narrow), cfg.products))
    /\ translations = CategoryTranslations(TranslationInput(products))
    /\ orders \in SeqsOf(OrderRows(customers, Narrow), cfg.orders)
    /\ order_items \in ItemTables(orders, products, sellers,
                                  IF cfg.orders = 1 THEN WideMoney ELSE Narrow)
    /\ payments = <<>> /\ reviews = <<>>
    /\ AtCall("generate_payments")

NextPayments == GeneratePayments(WideNumbers)

SpecPayments == InitPayments /\ [][NextPayments]_vars

InitReviews ==
    /\ cfg \in Configs({1}, {1}, {2}, 1 .. 2)
    /\ customers = One(SeqsOf(CustomerRows(Narrow), cfg.customers))
    /\ sellers = One(SeqsOf(SellerRows(Narrow), cfg.sellers))
    /\ products = One(SeqsOf(ProductRows(Narrow), cfg.products))
    /\ translations = CategoryTranslations(TranslationInput(products))
    /\ orders \in SeqsOf(OrderRows(customers, Narrow), cfg.orders)
    /\ order_items = One(ItemTables(orders, products, sellers, Narrow))
    /\ payments = One(PaymentTables(order_items, Narrow))
    /\ reviews = <<>>
    /\ AtCall("generate_reviews")

NextReviews == GenerateReviews(Wide)

SpecReviews == InitReviews /\ [][NextReviews]_vars

----------------------------------------------------------------------------
(* Properties *)

RowsOf(table, oid) == {i \in 1 .. Len(table) : table[i].order_id = oid}

AllGeneratorsReturned == \A i \in 1 .. Len(Generators) : Returned(Generators[i])

DistinctIds(table, name) ==
    \A i, j \in 1 .. Len(table) : table[i][name] = table[j][name] => i = j

\* C1: in every order row purchase <= approved <= carrier-delivered, the
\* customer-delivered date, when present, is not before the carrier-delivered
\* one, and purchase <= estimated delivery.
OrdersTimestampChain ==
    \A i \in 1 .. Len(orders) :
        LET o == orders[i] IN
        /\ o.order_purchase_timestamp <= o.order_approved_at
        /\ o.order_approved_at <= o.order_delivered_carrier_date
        /\ o.order_delivered_customer_date # NaT =>
               o.order_delivered_carrier_date <= o.order_delivered_customer_date
        /\ o.order_purchase_timestamp <= o.order_estimated_delivery_date

\* C1's case: a delivered order at the end of the purchase window, approved
\* the same day.
DeliveredOrderChainReached ==
    \E i \in 1 .. Len(orders) :
        /\ orders[i].order_delivered_customer_date # NaT
        /\ orders[i].order_purchase_timestamp = YearSeconds
        /\ orders[i].order_approved_at = orders[i].order_purchase_timestamp

\* C2: the customer-delivered date of an order row is present exactly when
\* the row's status is "delivered".
CustomerDateIffDelivered ==
    \A i \in 1 .. Len(orders) :
        (orders[i].order_delivered_customer_date # NaT)
            <=> (orders[i].order_status = "delivered")

\* C2's case: an order of one of the four other statuses, without the date.
UndeliveredOrderReached ==
    \E i \in 1 .. Len(orders) :
        /\ orders[i].order_status = "processing"
        /\ orders[i].order_delivered_customer_date = NaT

\* C9 as stated: every offset of the chain is at least one day.
EveryOffsetAtLeastOneDay ==
    \A i \in 1 .. Len(orders) :
        LET o == orders[i] IN
        /\ o.order_approved_at - o.order_purchase_timestamp >= Day
        /\ o.order_delivered_carrier_date - o.order_approved_at >= Day
        /\ o.order_delivered_customer_date # NaT =>
               o.order_delivered_customer_date - o.order_delivered_carrier_date >= Day
        /\ o.order_estimated_delivery_date - o.order_purchase_timestamp >= Day

\* C9 amended: the approval offset is zero days or more (an order can be
\* approved at its purchase timestamp); the three other offsets are at least
\* one day.
OffsetsAfterApprovalAtLeastOneDay ==
    \A i \in 1 .. Len(orders) :
        LET o == orders[i] IN
        /\ o.order_approved_at - o.order_purchase_timestamp >= 0
        /\ o.order_delivered_carrier_date - o.order_approved_at >= Day
        /\ o.order_delivered_customer_date # NaT =>
               o.order_delivered_customer_date - o.order_delivered_carrier_date >= Day
        /\ o.order_estimated_delivery_date - o.order_purchase_timestamp >= Day

\* C9's case: an order approved at its purchase timestamp and delivered to
\* the carrier one day later.
ApprovedAtPurchaseReached ==
    \E i \in 1 .. Len(orders) :
        /\ orders[i].order_approved_at = orders[i].order_purchase_timestamp
        /\ orders[i].order_delivered_carrier_date = orders[i].order_approved_at + Day

\* C3 as stated: the item rows carrying an order's order_id are numbered
\* exactly 1..k, k in 1..3, each number once, and no two of them carry the
\* same product_id.
ItemsOfEachOrderIdNumberedOnce ==
    Returned("generate_order_items") =>
        \A o \in 1 .. Len(orders) :
            LET R == RowsOf(order_items, orders[o].order_id) IN
            /\ \E k \in 1 .. 3 :
                  /\ Cardinality(R) = k
                  /\ {order_items[i].order_item_id : i \in R} = 1 .. k
            /\ \A i, j \in R :
                  order_items[i].product_id = order_items[j].product_id => i = j

\* The rows at which a block of the order-items table starts, ascending.
BlockStarts == SortedSeq({i \in 1 .. Len(order_items) : order_items[i].order_item_id = 1})

BlockEnd(j) == IF j < Len(BlockStarts) THEN BlockStarts[j + 1] - 1 ELSE Len(order_items)

\* C3 amended: the table is one block of consecutive rows per order ROW, in
\* the order of the orders table; the block of an order carries its order_id,
\* is numbered 1..k in sequence with k in 1..3, and its product_ids are
\* pairwise distinct whenever the product_ids of the products table are.
ItemsOfEachOrderRowNumberedOnce ==
    Returned("generate_order_items") =>
        /\ Len(BlockStarts) = Len(orders)
        /\ \A j \in 1 .. Len(BlockStarts) :
              LET first == BlockStarts[j]
                  last == BlockEnd(j)
              IN /\ last - first + 1 \in 1 .. 3
                 /\ \A i \in first .. last :
                       /\ order_items[i].order_id = orders[j].order_id
                       /\ order_items[i].order_item_id = i - first + 1
                 /\ DistinctIds(products, "product_id") =>
                       \A i, k \in first .. last :
                           order_items[i].product_id = order_items[k].product_id
                               => i = k

\* C3's case: two orders with one order_id, three items each, of products
\* with distinct ids.
CollidingOrdersItemsReached ==
    /\ Returned("generate_order_items")
    /\ Len(orders) = 2
    /\ orders[1].order_id = orders[2].order_id
    /\ Len(order_items) = 6
    /\ DistinctIds(products, "product_id")

\* C4: the payment rows carrying an order's order_id are one or two, and
\* they carry one installment count, which lies in 1..6.
PaymentsOfEachOrder ==
    Returned("generate_payments") =>
        \A o \in 1 .. Len(orders) :
            LET R == RowsOf(payments, orders[o].order_id) IN
            /\ Cardinality(R) \in {1, 2}
            /\ \A i, j \in R :
                  payments[i].payment_installments = payments[j].payment_installments
            /\ \A i \in R : payments[i].payment_installments \in 1 .. 6

\* C4's case: two orders with one order_id, paid for in two payments.
SplitPaymentOfCollidingOrdersReached ==
    /\ Returned("generate_payments")
    /\ Len(orders) = 2
    /\ orders[1].order_id = orders[2].order_id
    /\ Len(payments) = 2
    /\ payments[2].payment_installments = 6

\* C10: every payment value is positive and within 5.00 (and the half cent
\* of the rounding) of the order's total divided by its number of payments.
\* Twice the amounts, so that halves of a cent are whole.
PaymentValueNearShare ==
    Returned("generate_payments") =>
        \A i \in 1 .. Len(payments) :
            LET oid == payments[i].order_id
                n == Cardinality(RowsOf(payments, oid))
                share2 == (2 * TotalValue(order_items, oid)) \div n
                diff2 == 2 * payments[i].payment_value - share2
            IN /\ payments[i].payment_value > 0
               /\ diff2 >= -(2 * 500 + 1)
               /\ diff2 <= 2 * 500 + 1

\* C10's case: an order of one item at the lowest price and freight (12.00)
\* split in two, a payment of 6.00 - 5.00.
SmallestPaymentReached ==
    /\ Returned("generate_payments")
    /\ \E i \in 1 .. Len(payments) :
          /\ payments[i].payment_value = 100
          /\ payments[i].payment_sequential = 2
          /\ TotalValue(order_items, payments[i].order_id) = 1200

\* C5 as stated: exactly one review row carries an order's order_id, with a
\* score in 1..5 and answer >= creation >= that order's approval.
OneReviewPerOrderId ==
    Returned("generate_reviews") =>
        \A o \in 1 .. Len(orders) :
            LET R == RowsOf(reviews, orders[o].order_id) IN
            /\ Cardinality(R) = 1
            /\ \A i \in R :
                  /\ reviews[i].review_score \in 1 .. 5
                  /\ reviews[i].review_answer_timestamp >= reviews[i].review_creation_date
                  /\ reviews[i].review_creation_date >= orders[o].order_approved_at

\* C5 amended: the reviews table holds one row per order ROW, in the order
\* of the orders table: row i carries the order_id of order i, a score in
\* 1..5, and answer >= creation >= the approval of order i.
OneReviewPerOrderRow ==
    Returned("generate_reviews") =>
        /\ Len(reviews) = Len(orders)
        /\ \A i \in 1 .. Len(reviews) :
              /\ reviews[i].order_id = orders[i].order_id
              /\ reviews[i].review_score \in 1 .. 5
              /\ reviews[i].review_answer_timestamp >= reviews[i].review_creation_date
              /\ reviews[i].review_creation_date >= orders[i].order_approved_at

\* C5's case: two orders with one order_id, each with its review.
CollidingOrdersReviewsReached ==
    /\ Returned("generate_reviews")
    /\ Len(orders) = 2
    /\ orders[1].order_id = orders[2].order_id
    /\ Len(reviews) = 2
    /\ reviews[1].review_score = 1
    /\ reviews[2].review_score = 5

\* C6: once the eight generators have returned, every foreign key is a key
\* of its upstream table.
ForeignKeysResolve ==
    AllGeneratorsReturned =>
        /\ Column(orders, "customer_id") \subseteq Column(customers, "customer_id")
        /\ Column(order_items, "order_id") \subseteq Column(orders, "order_id")
        /\ Column(order_items, "product_id") \subseteq Column(products, "product_id")
        /\ Column(order_items, "seller_id") \subseteq Column(sellers, "seller_id")
        /\ Column(payments, "order_id") \subseteq Column(order_items, "order_id")
        /\ Column(payments, "order_id") \subseteq Column(orders, "order_id")
        /\ Column(reviews, "order_id") \subseteq Column(orders, "order_id")
        /\ Column(translations, "product_category_name")
               \subseteq Column(products, "product_category_name")

\* C6's case: a finished run over two orders with different ids, products of
\* two categories, and an id that gen_id can return but no customer has.
FinishedRunWithAllTablesReached ==
    /\ Done
    /\ Cardinality(Column(orders, "order_id")) = 2
    /\ Len(translations) = 2
    /\ Len(payments) > 2
    /\ Len(reviews) = 2
    /\ Column(customers, "customer_id") # gen_id(Narrow)

\* C7: a run in which a generator raised has written no file and printed
\* nothing, and a file is written only after the eight generators returned.
NoOutputBeforeAllGenerated ==
    /\ (\E i \in 1 .. Len(Generators) : failed = Generators[i]) =>
           (files = {} /\ printed = FALSE)
    /\ files # {} => AllGeneratorsReturned

\* C7's case: random.sample asked for three of two products, after five
\* generators had returned their tables.
SampleFailureReached ==
    /\ failed = "generate_order_items"
    /\ Len(products) = 2
    /\ sellers # <<>>
    /\ orders # <<>>
    /\ customers # <<>>

====
